---- MODULE Spec2Model ----
(***************************************************************************)
(* Model of the invoice scraper's session-state store (Utils.record_state, *)
(* Utils._append_session_storage_to_state, the page fixture of conftest)   *)
(* and of its download race (download_invoice_by_period of the water       *)
(* scanner, with try_direct_download and try_blob_download as asyncio      *)
(* tasks on one event loop).                                               *)
(***************************************************************************)
EXTENDS Integers, Sequences, FiniteSets, TLC

VARIABLES
    \* ---- session-state store ----
    ctxCookies,     \* cookie jar of the current browser context
    ctxLocal,       \* localStorage of the current context, per origin
    pageUrl,        \* page.url, as page.url.split("/") sees it
    pageSession,    \* sessionStorage of the page, per origin
    fileExists,     \* playwright/.auth/<platform>.json exists
    authFile,       \* its JSON content: [cookies, origins]
    lastOp,         \* the operation that produced this state
    lastCap,        \* the last capture, if it merged session storage: <<origin, items>>, else <<>>
    storeErr,       \* the exception the last fixture or capture raised, or "none"
    logged,         \* what the session-storage step of the last capture logged, or "none"
    \* ---- download race ----
    periodIdx,      \* index into PERIODS_TO_DOWNLOAD of the period being downloaded
    callerPc,       \* position of download_invoice_by_period / test_meitav
    directPc,       \* position of the try_direct_download task
    blobPc,         \* position of the try_blob_download task
    directCancel,   \* task.cancel() was requested on direct_task
    blobCancel,     \* task.cancel() was requested on blob_task
    files,          \* the files in download_dir: <<name, content>>
    popupOpen,      \* new_page is open
    newPageUrl,     \* new_page.url: <<scheme, rest>>
    now,            \* loop.time() in seconds since the tasks were created
    startWait,      \* start_wait of try_blob_download
    expectStart,    \* time at which expect_download armed its timeout
    sleepStart,     \* time at which asyncio.sleep(1) was entered
    directErr,      \* the exception direct_task ended with, or "none"
    blobErr,        \* the exception blob_task ended with, or "none"
    directBytes,    \* the result of direct_task, or "none"
    blobBytes,      \* the result of blob_task, or "none"
    pdfContent,     \* pdf_content of download_invoice_by_period: <<strategy, bytes>> or <<>>
    raised,         \* the strategy whose exception the call raised, "CancelledError", or "none"
    writes,         \* output files written: sequence of <<period, strategy>>
    attempted,      \* periods for which download_invoice_by_period was called
    reloads,        \* new_page.reload() calls made by blob_task
    directSteps,    \* the steps direct_task has completed after the download event
    \* -- authentication guards (Utils.wait_for_authenticated_*) --
    gPc,            \* "idle", "waiting" (inside page.wait_for_*), "done"
    gKind,          \* "page" or "selector": which guard was called
    gShouldExist,   \* the should_exist argument
    gPlatform,      \* the platform argument
    gNow,           \* the clock, in seconds
    gStart,         \* the time of the call
    gPresent,       \* the site: the URL is reached / the selector is visible, now
    gPresentAtStart,\* gPresent at the time of the call
    gAbsentWithin,  \* the condition was false at some time in the timeout window
    gPresentWithin, \* the condition was true at some time in the timeout window
    gWait,          \* how page.wait_for_* ended: "none", "found", or an error name
    gOutcome,       \* what the guard did: <<>>, <<"ok">> or <<error, ...>>
    gAttempts,      \* page.wait_for_* calls made by the guard
    \* -- fingerprint shim: canvas perturbation, per browser context --
    cvRng,          \* s of the shim's generator, as <<high half, low half>>
    cvCalls,        \* the canvas export calls and navigations so far
    cvPixels,       \* the pixel each call wrote: <<x, y, red>>, or <<>>
    cvDraws,        \* rand() calls since the shim last started
    \* -- fingerprint shim: one run of the script in a document --
    shPc,           \* 0 before the script runs, then the index of the next override
    shRejected,     \* the properties this browser refuses to redefine
    shMissing,      \* the WebGL interfaces this browser does not have
    shInstalled,    \* the overrides installed so far
    shErr,          \* the error the script threw, or "none"
    \* -- page fixtures (conftest.py) --
    fxPc,           \* "idle", "page_context", "page_covered", "cdp_context", "yielded", "failed"
    fxKind,         \* the fixture running: "page" or "cdp_page"
    fxShim,         \* add_init_script calls made on the fixture's context
    fxPages,        \* pages of the fixture's context
    fxBare,         \* the context has had a page while it had no init script
    fxErr,          \* the error the fixture raised, or "none"
    fxYielded,      \* what the fixtures yielded, one record per test
    chRunning,      \* a Chrome with remote debugging is running
    chContexts,     \* its browser contexts
    chPages         \* the pages of its first context

storeVars == <<ctxCookies, ctxLocal, pageUrl, pageSession, fileExists, authFile,
               lastOp, lastCap, storeErr, logged>>
acqVars == <<periodIdx, callerPc, directPc, blobPc, directCancel, blobCancel,
             files, popupOpen, newPageUrl, now, startWait, expectStart,
             sleepStart, directErr, blobErr, directBytes, blobBytes, pdfContent,
             raised, writes, attempted, reloads, directSteps>>
guardVars == <<gPc, gKind, gShouldExist, gPlatform, gNow, gStart, gPresent,
               gPresentAtStart, gAbsentWithin, gPresentWithin, gWait, gOutcome,
               gAttempts>>
canvasVars == <<cvRng, cvCalls, cvPixels, cvDraws>>
shimVars == <<shPc, shRejected, shMissing, shInstalled, shErr>>
fixtureVars == <<fxPc, fxKind, fxShim, fxPages, fxBare, fxErr, fxYielded, chRunning,
                 chContexts, chPages>>
vars == <<storeVars, acqVars, guardVars, canvasVars, shimVars, fixtureVars>>

\* What the operations of one part leave alone: the other parts.
exStore == <<acqVars, guardVars, canvasVars, shimVars, fixtureVars>>
exAcq == <<storeVars, guardVars, canvasVars, shimVars, fixtureVars>>
exGuard == <<storeVars, acqVars, canvasVars, shimVars, fixtureVars>>
exCanvas == <<storeVars, acqVars, guardVars, shimVars, fixtureVars>>
exShim == <<storeVars, acqVars, guardVars, canvasVars, fixtureVars>>
exFixture == <<storeVars, acqVars, guardVars, canvasVars, shimVars>>

(***************************************************************************)
(* Session-state store                                                     *)
(***************************************************************************)

\* Bounds of the store model.
MaxValue == 2      \* storage values are 1..MaxValue

Cookies == {"s"}
OriginOrder == <<"https://a.test", "https://b.test">>
Origins == {OriginOrder[i] : i \in DOMAIN OriginOrder}

\* page.url.split("/") of the pages the scanner can be on.
AboutBlank == <<"about:blank">>
Urls == {<<"https:", "", "a.test">>,
         <<"https:", "", "a.test", "appartments">>,
         <<"https:", "", "b.test">>}

\* Storage contents: a list of {name, value} items in key order.
Item(v) == [name |-> "k", value |-> v]
Storages == {<<>>} \cup {<<Item(v)>> : v \in 1..MaxValue}

\* origin = page.url.split("/")[0] + "//" + page.url.split("/")[2]
OriginOf(url) == url[1] \o "//" \o url[3]

\* The URL page.goto(origin) lands on.
UrlOfOrigin(o) == CHOOSE u \in Urls : Len(u) = 3 /\ OriginOf(u) = o

EmptyState == [cookies |-> {}, origins |-> <<>>]

RECURSIVE OriginEntries(_, _)
\* The origins list storage_state() reports: one entry per origin of the
\* context that has localStorage items.
OriginEntries(local, i) ==
    IF i > Len(OriginOrder) THEN <<>>
    ELSE LET o == OriginOrder[i]
             rest == OriginEntries(local, i + 1)
         IN IF local[o] # <<>>
            THEN <<[origin |-> o, localStorage |-> local[o]]>> \o rest
            ELSE rest

\* page.context.storage_state(path=full_path): cookies and localStorage.
StorageState(cookies, local) ==
    [cookies |-> cookies, origins |-> OriginEntries(local, 1)]

\* Index of the first entry of origins whose origin is o, or 0.
FindOrigin(origins, o) ==
    IF \E i \in DOMAIN origins : origins[i].origin = o
    THEN CHOOSE i \in DOMAIN origins :
            /\ origins[i].origin = o
            /\ \A j \in 1..(i - 1) : origins[j].origin # o
    ELSE 0

\* origin_data["sessionStorage"] = [...]
WithSession(entry, items) ==
    [k \in DOMAIN entry \cup {"sessionStorage"} |->
        IF k = "sessionStorage" THEN items ELSE entry[k]]

\* Mutant: the entry is rebuilt from the origin and the session items alone.
AppendSessionStorageRebuild(state, origin, items) ==
    LET i == FindOrigin(state.origins, origin)
        fresh == [origin |-> origin, sessionStorage |-> items]
    IN IF i # 0
       THEN [state EXCEPT !.origins[i] = fresh]
       ELSE [state EXCEPT !.origins = Append(@, fresh)]

\* Mutant: the session items are always appended as a new entry.
AppendSessionStorageAlways(state, origin, items) ==
    [state EXCEPT !.origins =
        Append(@, [origin |-> origin, sessionStorage |-> items])]

\* The merge of _append_session_storage_to_state into the loaded state.
AppendSessionStorage(state, origin, items) ==
    LET i == FindOrigin(state.origins, origin)
    IN IF i # 0
       THEN [state EXCEPT !.origins[i] = WithSession(@, items)]
       ELSE [state EXCEPT !.origins =
                Append(@, [origin |-> origin, sessionStorage |-> items])]

\* Mutant: the fixture never finds session storage in the state file.
SessionStorageDataNone(state) == <<>>

\* The fixture's scan of the state file: the first entry with sessionStorage.
SessionStorageData(state) ==
    IF \E i \in DOMAIN state.origins : "sessionStorage" \in DOMAIN state.origins[i]
    THEN LET i == CHOOSE i \in DOMAIN state.origins :
                    /\ "sessionStorage" \in DOMAIN state.origins[i]
                    /\ \A j \in 1..(i - 1) :
                          "sessionStorage" \notin DOMAIN state.origins[j]
         IN <<state.origins[i].origin, state.origins[i].sessionStorage>>
    ELSE <<>>

\* localStorage browser.new_context(storage_state=...) gives origin o.
ContextLocal(state, o) ==
    LET i == FindOrigin(state.origins, o)
    IN IF i # 0 /\ "localStorage" \in DOMAIN state.origins[i]
       THEN state.origins[i].localStorage
       ELSE <<>>

NoStorage == [o \in Origins |-> <<>>]

InitStore ==
    /\ ctxCookies = {}
    /\ ctxLocal = NoStorage
    /\ pageUrl = AboutBlank
    /\ pageSession = NoStorage
    /\ fileExists = FALSE
    /\ authFile = EmptyState
    /\ lastOp = "init"
    /\ lastCap = <<>>
    /\ storeErr = "none"
    /\ logged = "none"

\* The page fixture without the using_state marker: a fresh context and page.
NewPage ==
    /\ /\ ctxCookies' = {}
       /\ ctxLocal' = NoStorage
       /\ pageUrl' = AboutBlank
       /\ pageSession' = NoStorage
       /\ lastOp' = "new_page"
       /\ storeErr' = "none"
       /\ logged' = "none"
       /\ UNCHANGED <<fileExists, authFile, lastCap>>
    /\ UNCHANGED exStore

\* Mutant: a missing state file is taken for a first run and raises nothing.
StateFileErrorNone(exists) == "none"

\* if not os.path.exists(state_path): raise FileNotFoundError(...)
StateFileError(exists) == IF exists THEN "none" ELSE "FileNotFoundError"

\* The page fixture with the using_state marker.
LoadPage ==
    /\ IF ~fileExists
       THEN /\ lastOp' = "load_not_found"
            /\ storeErr' = StateFileError(fileExists)
            /\ logged' = "none"
            /\ UNCHANGED <<ctxCookies, ctxLocal, pageUrl, pageSession, fileExists,
                           authFile, lastCap>>
       ELSE LET data == SessionStorageData(authFile)
            IN /\ ctxCookies' = authFile.cookies
               /\ ctxLocal' = [o \in Origins |-> ContextLocal(authFile, o)]
               /\ pageUrl' = IF data # <<>> THEN UrlOfOrigin(data[1]) ELSE AboutBlank
               /\ pageSession' = IF data # <<>>
                                 THEN [NoStorage EXCEPT ![data[1]] = data[2]]
                                 ELSE NoStorage
               /\ lastOp' = "load"
               /\ storeErr' = StateFileError(fileExists)
               /\ logged' = "none"
               /\ UNCHANGED <<fileExists, authFile, lastCap>>
    /\ UNCHANGED exStore

\* The site, during a login: navigation, cookies, localStorage, sessionStorage.
Goto ==
    /\ \E u \in Urls :
           /\ pageUrl' = u
           /\ lastOp' = "site" /\ storeErr' = "none" /\ logged' = "none"
           /\ UNCHANGED <<ctxCookies, ctxLocal, pageSession, fileExists, authFile,
                          lastCap>>
    /\ UNCHANGED exStore

SetCookies ==
    /\ \E c \in SUBSET Cookies :
           /\ ctxCookies' = c
           /\ lastOp' = "site" /\ storeErr' = "none" /\ logged' = "none"
           /\ UNCHANGED <<ctxLocal, pageUrl, pageSession, fileExists, authFile,
                          lastCap>>
    /\ UNCHANGED exStore

SetLocalStorage ==
    /\ /\ pageUrl # AboutBlank
       /\ \E s \in Storages :
           /\ ctxLocal' = [ctxLocal EXCEPT ![OriginOf(pageUrl)] = s]
           /\ lastOp' = "site" /\ storeErr' = "none" /\ logged' = "none"
           /\ UNCHANGED <<ctxCookies, pageUrl, pageSession, fileExists, authFile,
                          lastCap>>
    /\ UNCHANGED exStore

SetSessionStorage ==
    /\ /\ pageUrl # AboutBlank
       /\ \E s \in Storages :
           /\ pageSession' = [pageSession EXCEPT ![OriginOf(pageUrl)] = s]
           /\ lastOp' = "site" /\ storeErr' = "none" /\ logged' = "none"
           /\ UNCHANGED <<ctxCookies, ctxLocal, pageUrl, fileExists, authFile,
                          lastCap>>
    /\ UNCHANGED exStore

\* What page.evaluate reads: the sessionStorage of the page's origin.
SessionItems == IF pageUrl = AboutBlank THEN <<>> ELSE pageSession[OriginOf(pageUrl)]

\* Mutant: the step does not return early when the page has no items.
AppendSessionStorageToStateNoReturn(state, url, items) ==
    [state |-> AppendSessionStorage(state, OriginOf(url), items), log |-> "info"]

\* Utils._append_session_storage_to_state after page.evaluate returned items:
\* the state written to the file and the message logged.
AppendSessionStorageToState(state, url, items) ==
    IF items = <<>>
    THEN [state |-> state, log |-> "warning"]
    ELSE [state |-> AppendSessionStorage(state, OriginOf(url), items), log |-> "info"]

\* Utils.record_state(page, platform, logger, include_session_storage).
\* On about:blank the page has no storage to read: page.evaluate raises after
\* storage_state() has written the file.
RecordState(include_session_storage) ==
    LET saved == StorageState(ctxCookies, ctxLocal)
    IN /\ fileExists' = TRUE
       /\ IF ~include_session_storage
          THEN /\ authFile' = saved
               /\ lastOp' = "record_plain"
               /\ lastCap' = <<>>
               /\ storeErr' = "none"
               /\ logged' = "none"
          ELSE IF pageUrl = AboutBlank
          THEN /\ authFile' = saved
               /\ lastOp' = "record_raised"
               /\ lastCap' = <<>>
               /\ storeErr' = "Error"
               /\ logged' = "none"
          ELSE LET origin == OriginOf(pageUrl)
                   step == AppendSessionStorageToState(saved, pageUrl, SessionItems)
               IN /\ authFile' = step.state
                  /\ logged' = step.log
                  /\ storeErr' = "none"
                  /\ lastOp' = IF SessionItems = <<>> THEN "record_no_session"
                               ELSE IF FindOrigin(saved.origins, origin) # 0
                               THEN "record_merge_found"
                               ELSE "record_merge_new"
                  /\ lastCap' = IF SessionItems = <<>> THEN <<>>
                                ELSE <<origin, SessionItems>>
       /\ UNCHANGED <<ctxCookies, ctxLocal, pageUrl, pageSession>>

RecordPlain == RecordState(FALSE) /\ UNCHANGED exStore

RecordWithSession == RecordState(TRUE) /\ UNCHANGED exStore

(***************************************************************************)
(* Download race                                                           *)
(***************************************************************************)

\* Bound of the race model: the clock stops at MaxTime seconds.
MaxTime == 12

DirectTimeoutMs == 5000
BlobTimeoutMs == 10000
SleepSeconds == 1

PERIODS_TO_DOWNLOAD == <<"4-2025", "5-2025", "6-2025">>
NumPeriods == Len(PERIODS_TO_DOWNLOAD)

\* download_dir / f"temp_{period.value}.pdf"
TempPath(period) == "temp_" \o period \o ".pdf"
\* download_dir / f"water_{period.value}.pdf"
SavePath(period) == "water_" \o period \o ".pdf"

Period == PERIODS_TO_DOWNLOAD[periodIdx]

Terminal == {"done", "failed", "cancelled"}

\* new_page.url before and after the site has rendered the invoice as a blob.
InvoiceUrl == <<"https", "//www.my-meitav.co.il/invoice">>
BlobUrl == <<"blob", "https://www.my-meitav.co.il/0a1b">>

\* new_page.url.startswith("blob:")
StartsWithBlob(url) == url[1] = "blob"

\* The bytes the site delivers by a download event, and as a blob.
DownloadContent == "pdf-download"
BlobContent == "pdf-blob"

InitAcq ==
    /\ periodIdx = 1
    /\ callerPc = "loop"
    /\ directPc = "idle"
    /\ blobPc = "idle"
    /\ directCancel = FALSE
    /\ blobCancel = FALSE
    /\ files = {}
    /\ popupOpen = FALSE
    /\ newPageUrl = InvoiceUrl
    /\ now = 0
    /\ startWait = 0
    /\ expectStart = 0
    /\ sleepStart = 0
    /\ directErr = "none"
    /\ blobErr = "none"
    /\ directBytes = "none"
    /\ blobBytes = "none"
    /\ pdfContent = <<>>
    /\ raised = "none"
    /\ writes = <<>>
    /\ attempted = {}
    /\ reloads = 0
    /\ directSteps = <<>>

\* asyncio.wait(..., return_when=FIRST_COMPLETED): the first task to complete
\* resolves the waiter; the caller runs again in a later iteration of the loop.
WakeCaller == callerPc' = IF callerPc = "waiting" THEN "woken" ELSE callerPc

\* The for loop of test_meitav, and download_invoice_by_period up to its
\* await of asyncio.wait: the popup is opened and both tasks are created.
StartPeriod ==
    /\ /\ callerPc = "loop"
       /\ periodIdx <= NumPeriods
       /\ directPc \in Terminal \cup {"idle"}
       /\ blobPc \in Terminal \cup {"idle"}
       /\ attempted' = attempted \cup {Period}
       /\ popupOpen' = TRUE
       /\ newPageUrl' = InvoiceUrl
       /\ directPc' = "start"
       /\ blobPc' = "start"
       /\ directCancel' = FALSE
       /\ blobCancel' = FALSE
       /\ directErr' = "none"
       /\ blobErr' = "none"
       /\ directBytes' = "none"
       /\ blobBytes' = "none"
       /\ pdfContent' = <<>>
       /\ now' = 0
       /\ startWait' = 0
       /\ expectStart' = 0
       /\ sleepStart' = 0
       /\ callerPc' = "waiting"
       /\ reloads' = 0
       /\ directSteps' = <<>>
       /\ UNCHANGED <<periodIdx, files, raised, writes>>
    /\ UNCHANGED exAcq

\* The loop of test_meitav ends after the last period.
FinishLoop ==
    /\ /\ callerPc = "loop"
       /\ periodIdx > NumPeriods
       /\ callerPc' = "finished"
       /\ UNCHANGED <<periodIdx, directPc, blobPc, directCancel, blobCancel, files,
                      popupOpen, newPageUrl, now, startWait, expectStart, sleepStart,
                      directErr, blobErr, directBytes, blobBytes, pdfContent, raised,
                      writes, attempted, reloads, directSteps>>
    /\ UNCHANGED exAcq

\* ---- try_direct_download ----

\* async with new_page.expect_download(timeout=timeout): the timeout is armed.
DirectStart ==
    /\ /\ directPc = "start"
       /\ directPc' = "expect"
       /\ expectStart' = now
       /\ UNCHANGED <<periodIdx, callerPc, blobPc, directCancel, blobCancel, files,
                      popupOpen, newPageUrl, now, startWait, sleepStart, directErr,
                      blobErr, directBytes, blobBytes, pdfContent, raised, writes,
                      attempted, reloads, directSteps>>
    /\ UNCHANGED exAcq

\* The download event fires; the task calls download.save_as(temp_path).
DirectDownload ==
    /\ /\ directPc = "expect"
       /\ blobPc # "start"
       /\ ~directCancel
       /\ popupOpen
       /\ directPc' = "saving"
       /\ UNCHANGED <<periodIdx, callerPc, blobPc, directCancel, blobCancel, files,
                      popupOpen, newPageUrl, now, startWait, expectStart, sleepStart,
                      directErr, blobErr, directBytes, blobBytes, pdfContent, raised,
                      writes, attempted, reloads, directSteps>>
    /\ UNCHANGED exAcq

DirectTimedOut == (now - expectStart) * 1000 >= DirectTimeoutMs

\* expect_download times out: the task ends with a TimeoutError.
DirectTimeout ==
    /\ /\ directPc = "expect"
       /\ blobPc # "start"
       /\ ~directCancel
       /\ DirectTimedOut
       /\ directPc' = "failed"
       /\ directErr' = "TimeoutError"
       /\ WakeCaller
       /\ UNCHANGED <<periodIdx, blobPc, directCancel, blobCancel, files, popupOpen,
                      newPageUrl, now, startWait, expectStart, sleepStart, blobErr,
                      directBytes, blobBytes, pdfContent, raised, writes, attempted,
                      reloads, directSteps>>
    /\ UNCHANGED exAcq

\* The file at download_dir / path exists.
Exists(name) == \E f \in files : f[1] = name

\* While the task is suspended in save_as, the browser writes the download
\* to temp_path.
DirectSaving ==
    /\ /\ directPc = "saving"
       /\ ~Exists(TempPath(Period))
       /\ files' = files \cup {<<TempPath(Period), DownloadContent>>}
       /\ UNCHANGED <<periodIdx, callerPc, directPc, blobPc, directCancel,
                      blobCancel, popupOpen, newPageUrl, now, startWait, expectStart,
                      sleepStart, directErr, blobErr, directBytes, blobBytes,
                      pdfContent, raised, writes, attempted, reloads, directSteps>>
    /\ UNCHANGED exAcq

\* await download.save_as(temp_path) is complete.
DirectSaved ==
    /\ /\ directPc = "saving"
       /\ ~directCancel
       /\ Exists(TempPath(Period))
       /\ directPc' = "saved"
       /\ directSteps' = Append(directSteps, "save_as")
       /\ UNCHANGED <<periodIdx, callerPc, blobPc, directCancel, blobCancel, files,
                      popupOpen, newPageUrl, now, startWait, expectStart, sleepStart,
                      directErr, blobErr, directBytes, blobBytes, pdfContent, raised,
                      writes, attempted, reloads>>
    /\ UNCHANGED exAcq

\* download.save_as raises: the download failed or was cancelled in the
\* browser, and nothing was written.
DirectSaveFails ==
    /\ /\ directPc = "saving"
       /\ ~directCancel
       /\ ~Exists(TempPath(Period))
       /\ directPc' = "failed"
       /\ directErr' = "Error"
       /\ WakeCaller
       /\ UNCHANGED <<periodIdx, blobPc, directCancel, blobCancel, files, popupOpen,
                      newPageUrl, now, startWait, expectStart, sleepStart, blobErr,
                      directBytes, blobBytes, pdfContent, raised, writes, attempted,
                      reloads, directSteps>>
    /\ UNCHANGED exAcq

\* temp_path.read_bytes()
ReadBytes(name) == (CHOOSE f \in files : f[1] = name)[2]

\* Mutant: the scratch file is left where it is.
UnlinkNothing(name) == files

\* temp_path.unlink()
Unlink(name) == {f \in files : f[1] # name}

\* pdf_content = temp_path.read_bytes(); temp_path.unlink(); return pdf_content
DirectFinish ==
    /\ /\ directPc = "saved"
       /\ ~directCancel
       /\ directBytes' = ReadBytes(TempPath(Period))
       /\ files' = Unlink(TempPath(Period))
       /\ directPc' = "done"
       /\ directSteps' = directSteps \o <<"read_bytes", "unlink", "return">>
       /\ WakeCaller
       /\ UNCHANGED <<periodIdx, blobPc, directCancel, blobCancel, popupOpen,
                      newPageUrl, now, startWait, expectStart, sleepStart, directErr,
                      blobErr, blobBytes, pdfContent, raised, writes, attempted,
                      reloads>>
    /\ UNCHANGED exAcq

\* CancelledError is thrown into the task at the await it is suspended in.
DirectCancelled ==
    /\ /\ directCancel
       /\ directPc \in {"expect", "saving", "saved"}
       /\ directPc' = "cancelled"
       /\ UNCHANGED <<periodIdx, callerPc, blobPc, directCancel, blobCancel, files,
                      popupOpen, newPageUrl, now, startWait, expectStart, sleepStart,
                      directErr, blobErr, directBytes, blobBytes, pdfContent, raised,
                      writes, attempted, reloads, directSteps>>
    /\ UNCHANGED exAcq

\* ---- try_blob_download ----

\* Mutant: the loop without its timeout test.
BlobLoopHeadNoTimeout(start) ==
    IF StartsWithBlob(newPageUrl)
    THEN blobPc' = "fetch" /\ UNCHANGED <<blobErr, callerPc, reloads>>
    ELSE /\ blobPc' = "reload" /\ reloads' = reloads + 1
         /\ UNCHANGED <<blobErr, callerPc>>

\* One evaluation of the while loop's test and the start of its body, or of
\* the call that follows the loop.
BlobLoopHead(start) ==
    IF StartsWithBlob(newPageUrl)
    THEN blobPc' = "fetch" /\ UNCHANGED <<blobErr, callerPc, reloads>>
    ELSE IF (now - start) * 1000 > BlobTimeoutMs
         THEN /\ blobPc' = "failed" /\ blobErr' = "TimeoutError" /\ WakeCaller
              /\ UNCHANGED reloads
         ELSE /\ blobPc' = "reload" /\ reloads' = reloads + 1
              /\ UNCHANGED <<blobErr, callerPc>>

BlobStart ==
    /\ /\ blobPc = "start"
       /\ directPc # "start"
       /\ startWait' = now
       /\ BlobLoopHead(now)
       /\ UNCHANGED <<periodIdx, directPc, directCancel, blobCancel, files,
                      popupOpen, newPageUrl, now, expectStart, sleepStart, directErr,
                      directBytes, blobBytes, pdfContent, raised, writes, attempted,
                      directSteps>>
    /\ UNCHANGED exAcq

\* await new_page.reload() returns; the task enters asyncio.sleep(1).
\* (The clock stops at MaxTime: a reload still pending then does not return,
\* it ends by the timeout of the navigation, see BlobReloadFails.)
BlobReloaded ==
    /\ /\ blobPc = "reload"
       /\ ~blobCancel
       /\ popupOpen
       /\ now < MaxTime
       /\ blobPc' = "sleep"
       /\ sleepStart' = now
       /\ UNCHANGED <<periodIdx, callerPc, directPc, directCancel, blobCancel, files,
                      popupOpen, newPageUrl, now, startWait, expectStart, directErr,
                      blobErr, directBytes, blobBytes, pdfContent, raised, writes,
                      attempted, reloads, directSteps>>
    /\ UNCHANGED exAcq

\* await new_page.reload() raises.
BlobReloadFails ==
    /\ /\ blobPc = "reload"
       /\ ~blobCancel
       /\ blobPc' = "failed"
       /\ blobErr' = "Error"
       /\ WakeCaller
       /\ UNCHANGED <<periodIdx, directPc, directCancel, blobCancel, files,
                      popupOpen, newPageUrl, now, startWait, expectStart, sleepStart,
                      directErr, directBytes, blobBytes, pdfContent, raised, writes,
                      attempted, reloads, directSteps>>
    /\ UNCHANGED exAcq

SleepOver == now - sleepStart >= SleepSeconds

\* asyncio.sleep(1) is over; the loop test is evaluated again.
BlobWake ==
    /\ /\ blobPc = "sleep"
       /\ ~blobCancel
       /\ SleepOver
       /\ BlobLoopHead(startWait)
       /\ UNCHANGED <<periodIdx, directPc, directCancel, blobCancel, files,
                      popupOpen, newPageUrl, now, startWait, expectStart, sleepStart,
                      directErr, directBytes, blobBytes, pdfContent, raised, writes,
                      attempted, directSteps>>
    /\ UNCHANGED exAcq

\* Utils.download_pdf_from_blob_url returns the bytes behind the blob URL.
BlobFetched ==
    /\ /\ blobPc = "fetch"
       /\ ~blobCancel
       /\ blobBytes' = BlobContent
       /\ blobPc' = "done"
       /\ WakeCaller
       /\ UNCHANGED <<periodIdx, directPc, directCancel, blobCancel, files,
                      popupOpen, newPageUrl, now, startWait, expectStart, sleepStart,
                      directErr, blobErr, directBytes, pdfContent, raised, writes,
                      attempted, reloads, directSteps>>
    /\ UNCHANGED exAcq

BlobCancelled ==
    /\ /\ blobCancel
       /\ blobPc \in {"reload", "sleep", "fetch"}
       /\ blobPc' = "cancelled"
       /\ UNCHANGED <<periodIdx, callerPc, directPc, directCancel, blobCancel, files,
                      popupOpen, newPageUrl, now, startWait, expectStart, sleepStart,
                      directErr, blobErr, directBytes, blobBytes, pdfContent, raised,
                      writes, attempted, reloads, directSteps>>
    /\ UNCHANGED exAcq

\* ---- the site and the clock ----

\* The site renders the invoice as a blob: new_page.url becomes a blob reference.
UrlBecomesBlob ==
    /\ /\ popupOpen
       /\ ~StartsWithBlob(newPageUrl)
       /\ newPageUrl' = BlobUrl
       /\ UNCHANGED <<periodIdx, callerPc, directPc, blobPc, directCancel,
                      blobCancel, files, popupOpen, now, startWait, expectStart,
                      sleepStart, directErr, blobErr, directBytes, blobBytes,
                      pdfContent, raised, writes, attempted, reloads, directSteps>>
    /\ UNCHANGED exAcq

Running(pc) == pc \notin Terminal \cup {"idle"}

\* The event loop has a callback to run (a timer that is due, a task that
\* was created, woken or cancelled): it runs it before it waits any longer.
LoopBusy ==
    \/ directPc = "start" \/ blobPc = "start"
    \/ directPc = "expect" /\ DirectTimedOut
    \/ blobPc = "sleep" /\ SleepOver
    \/ directPc = "saved"
    \/ callerPc = "woken"
    \/ Running(directPc) /\ directCancel
    \/ Running(blobPc) /\ blobCancel

Tick ==
    /\ /\ now < MaxTime
       /\ Running(directPc) \/ Running(blobPc)
       /\ ~LoopBusy
       /\ now' = now + 1
       /\ UNCHANGED <<periodIdx, callerPc, directPc, blobPc, directCancel,
                      blobCancel, files, popupOpen, newPageUrl, startWait,
                      expectStart, sleepStart, directErr, blobErr, directBytes,
                      blobBytes, pdfContent, raised, writes, attempted, reloads,
                      directSteps>>
    /\ UNCHANGED exAcq

\* ---- download_invoice_by_period after asyncio.wait ----

Tasks == {"direct", "blob"}
PcOf(t) == IF t = "direct" THEN directPc ELSE blobPc
BytesOf(t) == IF t = "direct" THEN directBytes ELSE blobBytes
ErrOf(t) == IF t = "direct" THEN directErr ELSE blobErr

\* done, pending = await asyncio.wait(...), when the caller runs again.
DoneTasks == {t \in Tasks : PcOf(t) \in Terminal}
PendingTasks == Tasks \ DoneTasks

\* Mutant: the strategy created first is preferred.
TaskResultsDirectPreferred(done) == {<<"direct", directBytes>>}

\* The values pdf_content can have after "for task in done: pdf_content =
\* task.result()" when no task of done has failed: the result of the task
\* the loop met last.
TaskResults(done) == {<<t, BytesOf(t)>> : t \in done}

\* for task in pending: task.cancel()
\* for task in done: pdf_content = task.result()
\* The set done is iterated in an order the program does not fix: result()
\* raises for the first failed task met, else the last result is kept.
CallerResume ==
    /\ /\ callerPc = "woken"
       /\ directCancel' = ("direct" \in PendingTasks)
       /\ blobCancel' = ("blob" \in PendingTasks)
       /\ IF \E t \in DoneTasks : PcOf(t) # "done"
          THEN /\ \E t \in DoneTasks :
                    /\ PcOf(t) # "done"
                    /\ raised' = t
               /\ callerPc' = "aborted"
               /\ UNCHANGED pdfContent
          ELSE /\ \E r \in TaskResults(DoneTasks) : pdfContent' = r
               /\ callerPc' = "closing"
               /\ UNCHANGED raised
       /\ UNCHANGED <<periodIdx, directPc, blobPc, files, popupOpen, newPageUrl, now,
                      startWait, expectStart, sleepStart, directErr, blobErr,
                      directBytes, blobBytes, writes, attempted, reloads,
                      directSteps>>
    /\ UNCHANGED exAcq

\* save_path.write_bytes(pdf_content)
WriteBytes(name, content) == {f \in files : f[1] # name} \cup {<<name, content>>}

\* await new_page.close() returns; the tasks cancelled before it have run
\* their cancellation by then.  Then the None check, the write and the return
\* to the loop of test_meitav.
CloseAndSave ==
    /\ /\ callerPc = "closing"
       /\ directCancel => directPc \in Terminal
       /\ blobCancel => blobPc \in Terminal
       /\ popupOpen' = FALSE
       /\ IF pdfContent = <<>>
          THEN /\ raised' = "ValueError"
               /\ callerPc' = "aborted"
               /\ UNCHANGED <<files, writes, periodIdx>>
          ELSE /\ files' = WriteBytes(SavePath(Period), pdfContent[2])
               /\ writes' = Append(writes, <<Period, pdfContent[1]>>)
               /\ periodIdx' = periodIdx + 1
               /\ callerPc' = "loop"
               /\ UNCHANGED raised
       /\ UNCHANGED <<directPc, blobPc, directCancel, blobCancel, newPageUrl, now,
                      startWait, expectStart, sleepStart, directErr, blobErr,
                      directBytes, blobBytes, pdfContent, attempted, reloads,
                      directSteps>>
    /\ UNCHANGED exAcq

\* The caller is cancelled from outside while it is suspended in
\* asyncio.wait or in new_page.close(): CancelledError leaves the function.
CancelCaller ==
    /\ /\ callerPc \in {"waiting", "woken", "closing"}
       /\ directPc # "start" /\ blobPc # "start"
       /\ callerPc' = "cancelled"
       /\ raised' = "CancelledError"
       /\ UNCHANGED <<periodIdx, directPc, blobPc, directCancel, blobCancel, files,
                      popupOpen, newPageUrl, now, startWait, expectStart, sleepStart,
                      directErr, blobErr, directBytes, blobBytes, pdfContent, writes,
                      attempted, reloads, directSteps>>
    /\ UNCHANGED exAcq

(***************************************************************************)
(* Authentication guards                                                   *)
(***************************************************************************)

MaxGuardTime == 7
GuardTimeoutMs == 5000

\* The platforms whose scanners call a guard.
Platforms == {"partner", "meitav"}

\* Failures of page.wait_for_* other than its timeout.
OtherErrors == {"TargetClosedError"}

Ok == <<"ok">>
CookieExpiredError(domain) == <<"CookieExpiredError", domain>>

\* Mutant: every failure of the wait is reported as expired cookies.
WaitForAuthenticatedPageCatchAll(wait, platform) ==
    IF wait = "found" THEN Ok ELSE CookieExpiredError(platform)

\* try: await page.wait_for_url(...)
\* except PlaywrightTimeoutError as exc: raise CookieExpiredError(platform)
WaitForAuthenticatedPage(wait, platform) ==
    IF wait = "found" THEN Ok
    ELSE IF wait = "TimeoutError" THEN CookieExpiredError(platform)
    ELSE <<wait>>

\* Mutant: should_exist is taken to be True.
WaitForAuthenticatedSelectorExists(wait, should_exist, platform) ==
    IF wait = "found" THEN Ok
    ELSE IF wait = "TimeoutError" THEN CookieExpiredError(platform)
    ELSE <<wait>>

\* Mutant: should_exist is taken to be False.
WaitForAuthenticatedSelectorAbsent(wait, should_exist, platform) ==
    IF wait = "found" THEN CookieExpiredError(platform)
    ELSE IF wait = "TimeoutError" THEN Ok
    ELSE <<wait>>

\* try: await page.wait_for_selector(...); if not should_exist: raise CookieExpiredError
\* except PlaywrightTimeoutError: if not should_exist: return; raise CookieExpiredError
\* (CookieExpiredError raised inside the try is not a PlaywrightTimeoutError:
\* it leaves the function.)
WaitForAuthenticatedSelector(wait, should_exist, platform) ==
    IF wait = "found"
    THEN IF ~should_exist THEN CookieExpiredError(platform) ELSE Ok
    ELSE IF wait = "TimeoutError"
    THEN IF ~should_exist THEN Ok ELSE CookieExpiredError(platform)
    ELSE <<wait>>

InitGuard ==
    /\ gPc = "idle"
    /\ gKind = "none"
    /\ gShouldExist = TRUE
    /\ gPlatform = "none"
    /\ gNow = 0
    /\ gStart = 0
    /\ gPresent = FALSE
    /\ gPresentAtStart = FALSE
    /\ gAbsentWithin = FALSE
    /\ gPresentWithin = FALSE
    /\ gWait = "none"
    /\ gOutcome = <<>>
    /\ gAttempts = 0

\* t is inside the timeout window of the wait that started at gStart.
InWindow(t) == (t - gStart) * 1000 < GuardTimeoutMs

\* A scanner calls a guard (timeout is left at its default).
GuardCall(kind, should_exist, platform) ==
    /\ /\ gPc = "idle"
       /\ gNow * 1000 + GuardTimeoutMs <= MaxGuardTime * 1000
       /\ gPc' = "called"
       /\ gKind' = kind
       /\ gShouldExist' = should_exist
       /\ gPlatform' = platform
       /\ gAttempts' = 0
       /\ UNCHANGED <<gNow, gStart, gPresent, gPresentAtStart, gAbsentWithin,
                      gPresentWithin, gWait, gOutcome>>
    /\ UNCHANGED exGuard

CallPageGuard == \E platform \in Platforms : GuardCall("page", TRUE, platform)

CallSelectorGuard ==
    \E should_exist \in BOOLEAN, platform \in Platforms :
        GuardCall("selector", should_exist, platform)

\* await page.wait_for_url(url, timeout) / page.wait_for_selector(selector, timeout)
WaitStart ==
    /\ /\ gPc = "called"
       /\ gPc' = "waiting"
       /\ gStart' = gNow
       /\ gPresentAtStart' = gPresent
       /\ gPresentWithin' = gPresent
       /\ gAbsentWithin' = ~gPresent
       /\ gAttempts' = gAttempts + 1
       /\ UNCHANGED <<gKind, gShouldExist, gPlatform, gNow, gPresent, gWait, gOutcome>>
    /\ UNCHANGED exGuard

\* The wait ends with result wait, and the guard's own code runs to its end.
WaitEnds(wait) ==
    /\ gPc' = "done"
    /\ gWait' = wait
    /\ gOutcome' = IF gKind = "page"
                   THEN WaitForAuthenticatedPage(wait, gPlatform)
                   ELSE WaitForAuthenticatedSelector(wait, gShouldExist, gPlatform)
    /\ UNCHANGED <<gKind, gShouldExist, gPlatform, gNow, gStart, gPresent,
                   gPresentAtStart, gAbsentWithin, gPresentWithin, gAttempts>>

WaitFound ==
    /\ /\ gPc = "waiting"
       /\ gPresent
       /\ InWindow(gNow)
       /\ WaitEnds("found")
    /\ UNCHANGED exGuard

WaitTimeout ==
    /\ /\ gPc = "waiting"
       /\ ~InWindow(gNow)
       /\ WaitEnds("TimeoutError")
    /\ UNCHANGED exGuard

WaitFails ==
    /\ /\ gPc = "waiting"
       /\ \E e \in OtherErrors : WaitEnds(e)
    /\ UNCHANGED exGuard

\* The wait is resolved by the browser as soon as its condition holds or its
\* timeout is over: time does not pass over a wait that can end.
GuardBusy ==
    \/ gPc = "called"
    \/ gPc = "waiting" /\ (gPresent \/ ~InWindow(gNow))

\* A second passes, and the site shows or hides what the guard waits for.
GuardTick ==
    /\ /\ gNow < MaxGuardTime
       /\ ~GuardBusy
       /\ gNow' = gNow + 1
       /\ \E p \in BOOLEAN :
            /\ gPresent' = p
            /\ IF gPc \in {"waiting", "done"} /\ InWindow(gNow + 1)
               THEN /\ gPresentWithin' = (gPresentWithin \/ p)
                    /\ gAbsentWithin' = (gAbsentWithin \/ ~p)
               ELSE UNCHANGED <<gPresentWithin, gAbsentWithin>>
       /\ UNCHANGED <<gPc, gKind, gShouldExist, gPlatform, gStart, gPresentAtStart,
                      gWait, gOutcome, gAttempts>>
    /\ UNCHANGED exGuard

(***************************************************************************)
(* Fingerprint shim: the canvas perturbation                               *)
(***************************************************************************)

MaxCalls == 3
Seed == 1337
LcgA == 1664525
LcgC == 1013904223
MaxCorner == 8

\* Two browser contexts, each with its own run of the shim.
Contexts == {1, 2}

\* A 32-bit unsigned value is kept as <<high half, low half>>, so that the
\* products below stay inside the model checker's integers.
Half == 2^16
Word(n) == <<(n \div Half) % Half, n % Half>>

\* Mutant: the generator starts from a seed of the context's own.
ShimStartPerContext(ctx) == Word(Seed + ctx)

\* const seed = 1337; let s = seed >>> 0;   (run again in every new document)
ShimStart(ctx) == Word(Seed)

\* s = (s * 1664525 + 1013904223) >>> 0
\* (the product is below 2^53: the double arithmetic of the script is exact)
Rand(s) ==
    LET a == Word(LcgA)
        c == Word(LcgC)
        low == s[2] * a[2] + c[2]
        high == s[1] * a[2] + s[2] * a[1] + c[1] + (low \div Half)
    IN <<high % Half, low % Half>>

\* (rand() * m) | 0, where rand() is s / 2**32
Scale(s, m) == (s[1] * m + ((s[2] * m) \div Half)) \div Half

Min(a, b) == IF a < b THEN a ELSE b

\* The canvases export calls are made on: width, height, whether
\* getContext("2d") gives a context, and the red byte of the corner pixels.
Canvases ==
    { [op |-> "export", w |-> 3, h |-> 300, has2d |-> TRUE, red |-> 255],
      [op |-> "export", w |-> 0, h |-> 150, has2d |-> TRUE, red |-> 0],
      [op |-> "export", w |-> 300, h |-> 150, has2d |-> FALSE, red |-> 7] }

Navigation == [op |-> "navigate", w |-> 0, h |-> 0, has2d |-> FALSE, red |-> 0]

\* The body of the patched toDataURL / toBlob: the new generator state and the
\* pixel written, <<x, y, red>>, or <<>> when nothing is written.
PatchedExport(s, canvas) ==
    IF canvas.has2d /\ canvas.w > 0 /\ canvas.h > 0
    THEN LET s1 == Rand(s)
             s2 == Rand(s1)
             x == Scale(s1, Min(MaxCorner, canvas.w))
             y == Scale(s2, Min(MaxCorner, canvas.h))
         IN [s |-> s2, pixel |-> <<x, y, (canvas.red + 1) % 256>>]
    ELSE [s |-> s, pixel |-> <<>>]

InitCanvas ==
    /\ cvRng = [ctx \in Contexts |-> ShimStart(ctx)]
    /\ cvCalls = [ctx \in Contexts |-> <<>>]
    /\ cvPixels = [ctx \in Contexts |-> <<>>]
    /\ cvDraws = [ctx \in Contexts |-> 0]

\* A page of context ctx calls toDataURL or toBlob on a canvas.
ExportCanvas ==
    /\ \E ctx \in Contexts, canvas \in Canvases :
         LET r == PatchedExport(cvRng[ctx], canvas)
         IN /\ Len(cvCalls[ctx]) < MaxCalls
            /\ cvRng' = [cvRng EXCEPT ![ctx] = r.s]
            /\ cvCalls' = [cvCalls EXCEPT ![ctx] = Append(@, canvas)]
            /\ cvPixels' = [cvPixels EXCEPT ![ctx] = Append(@, r.pixel)]
            /\ cvDraws' = [cvDraws EXCEPT ![ctx] = IF r.pixel = <<>> THEN @ ELSE @ + 2]
    /\ UNCHANGED exCanvas

\* The page of context ctx loads a new document: the init script runs again.
NavigateCanvasPage ==
    /\ \E ctx \in Contexts :
         /\ Len(cvCalls[ctx]) < MaxCalls
         /\ cvRng' = [cvRng EXCEPT ![ctx] = ShimStart(ctx)]
         /\ cvCalls' = [cvCalls EXCEPT ![ctx] = Append(@, Navigation)]
         /\ cvPixels' = [cvPixels EXCEPT ![ctx] = Append(@, <<>>)]
         /\ cvDraws' = [cvDraws EXCEPT ![ctx] = 0]
    /\ UNCHANGED exCanvas

(***************************************************************************)
(* Fingerprint shim: installing the overrides                              *)
(***************************************************************************)

MaxRejected == 2

\* The overrides, in the order the script installs them. how is the way the
\* script writes the property; iface is the WebGL interface the property
\* belongs to; guarded tells whether the script looks the interface up
\* through window (a missing one is then undefined, not an error).
Override(name, how, iface, guarded) ==
    [name |-> name, how |-> how, iface |-> iface, guarded |-> guarded]

Overrides ==
    << Override("hardwareConcurrency", "defineGetter", "", TRUE),
       Override("language", "defineGetter", "", TRUE),
       Override("languages", "defineGetter", "", TRUE),
       Override("platform", "defineGetter", "", TRUE),
       Override("webdriver", "defineGetter", "", TRUE),
       Override("permissions.query", "assignment", "", TRUE),
       Override("toDataURL", "defineProperty", "", TRUE),
       Override("toBlob", "defineProperty", "", TRUE),
       Override("WebGL.getParameter", "defineProperty", "WebGLRenderingContext", FALSE),
       Override("WebGL.getExtension", "defineProperty", "WebGLRenderingContext", FALSE),
       Override("WebGL2.getParameter", "defineProperty", "WebGL2RenderingContext", TRUE),
       Override("WebGL2.getExtension", "defineProperty", "WebGL2RenderingContext", TRUE) >>

OverrideNames == {Overrides[i].name : i \in 1..Len(Overrides)}
Interfaces == {"WebGLRenderingContext", "WebGL2RenderingContext"}

\* What installing override o does in a browser that rejects the
\* redefinition of the properties in rejected and lacks the interfaces in
\* missing: "installed", "skipped", or the error thrown.
\*  - defineGetter wraps Object.defineProperty in try/catch;
\*  - the assignment to navigator.permissions.query is in a non-strict
\*    script, where a rejected assignment does nothing;
\*  - patchCanvasExport and patchWebGL call Object.defineProperty bare;
\*  - WebGLRenderingContext is named bare, WebGL2RenderingContext through window.
InstallOverride(o, rejected, missing) ==
    IF o.iface \in missing
    THEN IF o.guarded THEN "skipped" ELSE "ReferenceError"
    ELSE IF o.name \notin rejected THEN "installed"
    ELSE IF o.how = "defineProperty" THEN "TypeError"
    ELSE "skipped"

InitShim ==
    /\ shPc = 0
    /\ shRejected = {}
    /\ shMissing = {}
    /\ shInstalled = {}
    /\ shErr = "none"

\* A document is created in some browser, and the init script starts.
ShimStarts ==
    /\ /\ shPc = 0
       /\ \E rejected \in SUBSET OverrideNames, missing \in SUBSET Interfaces :
            /\ Cardinality(rejected) <= MaxRejected
            /\ shRejected' = rejected
            /\ shMissing' = missing
       /\ shPc' = 1
       /\ UNCHANGED <<shInstalled, shErr>>
    /\ UNCHANGED exShim

\* The script is at its next override; an error thrown there leaves the
\* script (nothing outside the helpers catches it).
ShimStep ==
    /\ /\ shPc \in 1..Len(Overrides)
       /\ shErr = "none"
       /\ LET o == Overrides[shPc]
              r == InstallOverride(o, shRejected, shMissing)
          IN /\ shInstalled' = IF r = "installed" THEN shInstalled \cup {o.name}
                                                  ELSE shInstalled
             /\ shErr' = IF r \in {"installed", "skipped"} THEN "none" ELSE r
             /\ shPc' = shPc + 1
       /\ UNCHANGED <<shRejected, shMissing>>
    /\ UNCHANGED exShim

\* The script is over: it ran to its end, or threw.
ShimOver == shPc > Len(Overrides) \/ shErr # "none"

(***************************************************************************)
(* Page fixtures and the fingerprint shim                                  *)
(***************************************************************************)

MaxTests == 3
MaxChromePages == 2

InitFixture ==
    /\ fxPc = "idle"
    /\ fxKind = "none"
    /\ fxShim = 0
    /\ fxPages = 0
    /\ fxBare = FALSE
    /\ fxErr = "none"
    /\ fxYielded = <<>>
    /\ chRunning = FALSE
    /\ chContexts = 0
    /\ chPages = 0

\* The context of the fixture has a page and no init script.
Bare(pages, shim) == pages > 0 /\ shim = 0

\* Between tests, the user starts or stops the Chrome of cdp_page's
\* docstring, and opens or closes its windows and tabs.
ChromeUser ==
    /\ /\ fxPc = "idle"
       /\ \E running \in BOOLEAN, contexts \in 0..1, pages \in 0..MaxChromePages :
            /\ ~running => contexts = 0
            /\ contexts = 0 => pages = 0
            /\ <<running, contexts, pages>> # <<chRunning, chContexts, chPages>>
            /\ chRunning' = running
            /\ chContexts' = contexts
            /\ chPages' = pages
       /\ UNCHANGED <<fxPc, fxKind, fxShim, fxPages, fxBare, fxErr, fxYielded>>
    /\ UNCHANGED exFixture

\* page: context = await browser.new_context(...)
PageNewContext ==
    /\ /\ fxPc = "idle"
       /\ Len(fxYielded) < MaxTests
       /\ fxPc' = "page_context"
       /\ fxKind' = "page"
       /\ fxShim' = 0
       /\ fxPages' = 0
       /\ fxBare' = FALSE
       /\ fxErr' = "none"
       /\ UNCHANGED <<fxYielded, chRunning, chContexts, chPages>>
    /\ UNCHANGED exFixture

\* Utils.cover_footprints(context): context.add_init_script(FINGERPRINT_SHIM)
CoverFootprints ==
    /\ /\ fxPc = "page_context"
       /\ fxPc' = "page_covered"
       /\ fxShim' = fxShim + 1
       /\ UNCHANGED <<fxKind, fxPages, fxBare, fxErr, fxYielded, chRunning,
                      chContexts, chPages>>
    /\ UNCHANGED exFixture

\* The fixture yields its page to the test.
Yield(pages, bare) ==
    /\ fxPc' = "yielded"
    /\ fxPages' = pages
    /\ fxBare' = bare
    /\ fxYielded' = Append(fxYielded, [fixture |-> fxKind, shim |-> fxShim, bare |-> bare])

\* page: page = await context.new_page(); ...; yield page
PageNewPage ==
    /\ /\ fxPc = "page_covered"
       /\ Yield(fxPages + 1, fxBare \/ Bare(fxPages + 1, fxShim))
       /\ UNCHANGED <<fxKind, fxShim, fxErr, chRunning, chContexts, chPages>>
    /\ UNCHANGED exFixture

\* cdp_page: connect_over_cdp, then context = browser.contexts[0]
CdpConnect ==
    /\ /\ fxPc = "idle"
       /\ Len(fxYielded) < MaxTests
       /\ fxKind' = "cdp_page"
       /\ fxShim' = 0
       /\ IF ~chRunning \/ chContexts = 0
          THEN /\ fxPc' = "failed"
               /\ fxErr' = "RuntimeError"
               /\ fxPages' = 0
               /\ fxBare' = FALSE
          ELSE /\ fxPc' = "cdp_context"
               /\ fxErr' = "none"
               /\ fxPages' = chPages
               /\ fxBare' = Bare(chPages, 0)
       /\ UNCHANGED <<fxYielded, chRunning, chContexts, chPages>>
    /\ UNCHANGED exFixture

\* cdp_page: page = context.pages[0] if context.pages else await context.new_page()
\*           yield page
CdpTakePage ==
    /\ /\ fxPc = "cdp_context"
       /\ LET pages == IF fxPages > 0 THEN fxPages ELSE 1
          IN /\ Yield(pages, fxBare \/ Bare(pages, fxShim))
             /\ chPages' = pages
       /\ UNCHANGED <<fxKind, fxShim, fxErr, chRunning, chContexts>>
    /\ UNCHANGED exFixture

\* page: page.close(), context.close().  cdp_page: browser.close(), which
\* leaves Chrome and its pages as they are.
FixtureTeardown ==
    /\ /\ fxPc \in {"yielded", "failed"}
       /\ fxPc' = "idle"
       /\ UNCHANGED <<fxKind, fxShim, fxPages, fxBare, fxErr, fxYielded, chRunning,
                      chContexts, chPages>>
    /\ UNCHANGED exFixture

(***************************************************************************)
(* Specifications                                                          *)
(***************************************************************************)

Init == InitStore /\ InitAcq /\ InitGuard /\ InitCanvas /\ InitShim
        /\ InitFixture

NextStore ==
    \/ NewPage
    \/ LoadPage
    \/ Goto
    \/ SetCookies
    \/ SetLocalStorage
    \/ SetSessionStorage
    \/ RecordPlain
    \/ RecordWithSession

NextAcq ==
    \/ StartPeriod
    \/ FinishLoop
    \/ DirectStart
    \/ DirectDownload
    \/ DirectTimeout
    \/ DirectSaving
    \/ DirectSaved
    \/ DirectSaveFails
    \/ DirectFinish
    \/ DirectCancelled
    \/ BlobStart
    \/ BlobReloaded
    \/ BlobReloadFails
    \/ BlobWake
    \/ BlobFetched
    \/ BlobCancelled
    \/ UrlBecomesBlob
    \/ Tick
    \/ CallerResume
    \/ CloseAndSave
    \/ CancelCaller

NextGuard ==
    \/ CallPageGuard
    \/ CallSelectorGuard
    \/ WaitStart
    \/ WaitFound
    \/ WaitTimeout
    \/ WaitFails
    \/ GuardTick

NextCanvas ==
    \/ ExportCanvas
    \/ NavigateCanvasPage

NextShim ==
    \/ ShimStarts
    \/ ShimStep

NextFixture ==
    \/ ChromeUser
    \/ PageNewContext
    \/ CoverFootprints
    \/ PageNewPage
    \/ CdpConnect
    \/ CdpTakePage
    \/ FixtureTeardown

\* The session-state store alone.
SpecStore == Init /\ [][NextStore]_vars

\* The download race alone.
SpecAcq == Init /\ [][NextAcq]_vars

\* The download race under a fair event loop: a callback that is ready is
\* run, a pending browser operation ends, and time passes.
SpecAcqFair == SpecAcq /\ WF_vars(NextAcq)

\* The authentication guards alone.
SpecGuard == Init /\ [][NextGuard]_vars

\* The canvas perturbation of the fingerprint shim alone, in two contexts.
SpecCanvas == Init /\ [][NextCanvas]_vars

\* One run of the fingerprint shim in a document.
SpecShim == Init /\ [][NextShim]_vars

\* The page fixtures of a test session.
SpecFixture == Init /\ [][NextFixture]_vars

Next == NextStore \/ NextAcq \/ NextGuard \/ NextCanvas \/ NextShim \/ NextFixture

Spec == Init /\ [][Next]_vars

(***************************************************************************)
(* Claims about the download race (checked under SpecAcq)                  *)
(***************************************************************************)

\* The reasons the exception raised by download_invoice_by_period carries:
\* task.result() re-raises the exception of one task.
RaisedReasons == IF raised \in Tasks THEN {<<raised, ErrOf(raised)>>} ELSE {}

\* download_invoice_by_period has returned or raised for the i-th period,
\* and the tasks it created have ended.
AcquireOver(i) ==
    \/ i < periodIdx
    \/ /\ i = periodIdx
       /\ callerPc = "aborted"
       /\ ~Running(directPc) /\ ~Running(blobPc)

CancelOf(t) == IF t = "direct" THEN directCancel ELSE blobCancel

\* C1: the race ends only on a success: the failure of a strategy is raised
\* to the caller only when no strategy can succeed any more, that is when
\* every strategy has failed.
C1_FailureOnlyWhenAllFailed ==
    raised \in Tasks => \A t \in Tasks : PcOf(t) = "failed"

\* C2: when both strategies have failed, the error raised by the call carries
\* the failure reason of both strategies.
C2_ErrorCarriesEveryReason ==
    (raised \in Tasks /\ \A t \in Tasks : PcOf(t) = "failed")
        => RaisedReasons = {<<t, ErrOf(t)>> : t \in Tasks}

\* C3: once the call for a period has returned or failed, the scratch file
\* temp_<period>.pdf of that period is not in the download directory.
C3_NoScratchFileLeft ==
    \A i \in 1..NumPeriods :
        AcquireOver(i) => ~Exists(TempPath(PERIODS_TO_DOWNLOAD[i]))

\* C4: one outcome is accepted per call: a period's output file is written at
\* most once, and when a strategy has succeeded the call does not fail with
\* the failure of the other strategy.
C4_OneOutcomeAccepted ==
    /\ \A i, j \in DOMAIN writes : writes[i][1] = writes[j][1] => i = j
    /\ raised \in Tasks => \A t \in Tasks : PcOf(t) # "done"

\* C5: once the caller has been cancelled, every strategy task that is still
\* running has received a cancellation request.
C5_CallerCancelReachesTasks ==
    callerPc = "cancelled" => \A t \in Tasks : Running(PcOf(t)) => CancelOf(t)

\* C6: a failed period does not abort its siblings: the loop over
\* PERIODS_TO_DOWNLOAD ends only after every period has been attempted.
C6_SiblingPeriodsAttempted ==
    callerPc \in {"aborted", "finished"}
        => attempted = {PERIODS_TO_DOWNLOAD[i] : i \in 1..NumPeriods}

(***************************************************************************)
(* Claims about the session-state store (checked under SpecStore)          *)
(***************************************************************************)

\* The record holds an entry for origin o whose sessionStorage is items.
HasSession(state, o, items) ==
    \E i \in DOMAIN state.origins :
        /\ state.origins[i].origin = o
        /\ "sessionStorage" \in DOMAIN state.origins[i]
        /\ state.origins[i].sessionStorage = items

\* C7: sessionStorage is additive: after a capture with session storage on
\* origin A and a later one on a different origin B, the record holds the
\* sessionStorage of both A and B.
C7_SessionStorageAdditive ==
    [][(lastCap # <<>> /\ lastCap' # <<>> /\ lastCap'[1] # lastCap[1])
         => /\ HasSession(authFile', lastCap[1], lastCap[2])
            /\ HasSession(authFile', lastCap'[1], lastCap'[2])]_vars

OnlySessionChanged(before, after, o, items) ==
    /\ after.cookies = before.cookies
    /\ Len(after.origins) = Len(before.origins)
    /\ \A i \in DOMAIN before.origins :
          LET b == before.origins[i]
              a == after.origins[i]
          IN IF b.origin = o
             THEN /\ DOMAIN a = DOMAIN b \cup {"sessionStorage"}
                  /\ a.sessionStorage = items
                  /\ \A k \in DOMAIN b \ {"sessionStorage"} : a[k] = b[k]
             ELSE a = b

\* C9: a merge for an origin that already has an entry replaces only that
\* entry's sessionStorage: its localStorage, the other entries and the
\* cookies are as storage_state() wrote them.
C9_MergeKeepsTheRest ==
    [][lastOp' = "record_merge_found"
         => OnlySessionChanged(StorageState(ctxCookies, ctxLocal), authFile',
                               OriginOf(pageUrl), SessionItems)]_vars

\* A merge into an existing entry, in a record with cookies and another entry.
C9_Witness ==
    /\ lastOp = "record_merge_found"
    /\ authFile.cookies # {}
    /\ Len(authFile.origins) = 2
    /\ \E i \in DOMAIN authFile.origins :
          /\ authFile.origins[i].origin = OriginOf(pageUrl)
          /\ DOMAIN authFile.origins[i] = {"origin", "localStorage", "sessionStorage"}
          /\ authFile.origins[i].localStorage # authFile.origins[i].sessionStorage

\* C10: the record has at most one entry per origin string.
C10_OneEntryPerOrigin ==
    fileExists =>
        \A i, j \in DOMAIN authFile.origins :
            authFile.origins[i].origin = authFile.origins[j].origin => i = j

\* A capture with session storage for an origin that was already present.
C10_Witness ==
    /\ lastOp = "record_merge_found"
    /\ Len(authFile.origins) = 2
    /\ lastCap # <<>>
    /\ lastCap[1] = OriginOf(pageUrl)

\* C11: a capture with session storage requested on a page whose
\* sessionStorage is empty raises nothing, logs a warning, and leaves the
\* record as storage_state() wrote it: cookies and localStorage only.
C11_EmptySessionStorageIsNoOp ==
    lastOp = "record_no_session" =>
        /\ storeErr = "none"
        /\ logged = "warning"
        /\ fileExists
        /\ authFile = StorageState(ctxCookies, ctxLocal)

\* Such a capture on a page of an origin, with cookies and localStorage saved.
C11_Witness ==
    /\ lastOp = "record_no_session"
    /\ pageUrl # AboutBlank
    /\ SessionItems = <<>>
    /\ authFile.cookies # {}
    /\ Len(authFile.origins) = 2

GuardDone(kind) == gPc = "done" /\ gKind = kind

\* C13: wait_for_authenticated_page succeeds when the URL is reached within
\* the timeout, fails with CookieExpiredError for the platform when the wait
\* times out, lets any other failure of the wait through unchanged, and makes
\* exactly one wait attempt.
C13_PageGuard ==
    GuardDone("page") =>
        /\ gAttempts = 1
        /\ gWait = "found" => gOutcome = Ok /\ gPresentWithin
        /\ gWait = "TimeoutError" =>
               gOutcome = CookieExpiredError(gPlatform) /\ ~gPresentWithin
        /\ gWait \in OtherErrors => gOutcome = <<gWait>>

\* The URL was never reached, and the guard reported expired cookies.
C13_Witness ==
    /\ GuardDone("page")
    /\ gWait = "TimeoutError"
    /\ gOutcome = CookieExpiredError("meitav")

C15_SelectorMustExist ==
    ( /\ GuardDone("selector")
      /\ gShouldExist
      /\ gWait \notin OtherErrors ) =>
        /\ gOutcome = Ok <=> gPresentWithin
        /\ gOutcome # Ok => gOutcome = CookieExpiredError(gPlatform) /\ ~InWindow(gNow)

\* The selector was not there at the start, showed later, and the guard
\* succeeded.
C15_Witness ==
    /\ GuardDone("selector")
    /\ gShouldExist
    /\ ~gPresentAtStart
    /\ gOutcome = Ok

(***************************************************************************)
(* Claims about the fingerprint shim (checked under SpecCanvas)            *)
(***************************************************************************)

\* The generator state after k draws from the seed.
RECURSIVE Draw(_)
Draw(k) == IF k = 0 THEN Word(Seed) ELSE Rand(Draw(k - 1))

Installable ==
    {Overrides[i].name : i \in {j \in 1..Len(Overrides) :
        Overrides[j].name \notin shRejected /\ Overrides[j].iface \notin shMissing}}

\* C17: whichever override the browser rejects, and whether or not
\* WebGLRenderingContext exists, the shim throws nothing and every other
\* override is installed.
C17_OverridesFailSilently ==
    ShimOver => shErr = "none" /\ shInstalled = Installable

\* C18: every page a fixture yields belongs to a context on which
\* cover_footprints was called exactly once, before the context had a page.
C18_ShimBeforeAnyPage ==
    \A i \in 1..Len(fxYielded) : fxYielded[i].shim = 1 /\ ~fxYielded[i].bare

(***************************************************************************)
(* Claims about the two strategies                                         *)
(***************************************************************************)

\* The sleep is SleepSeconds long and the loop goes on only while the
\* elapsed time is at most the timeout.
MaxReloads == BlobTimeoutMs \div (SleepSeconds * 1000) + 1

InPeriod == callerPc \notin {"loop", "finished"}

\* C20: when the event-driven strategy succeeds it has saved the download to
\* the scratch path, read it back, deleted the scratch file and returned, in
\* that order; the bytes returned are the content saved, and the scratch
\* file is gone.
C20_DirectOrder ==
    directPc = "done" /\ InPeriod =>
        /\ directSteps = <<"save_as", "read_bytes", "unlink", "return">>
        /\ directBytes = DownloadContent
        /\ ~Exists(TempPath(Period))

\* The event-driven strategy has just resolved; the caller has not run yet.
C20_Witness ==
    /\ directPc = "done"
    /\ callerPc = "woken"
    /\ directBytes = DownloadContent

\* C21: the winner is the strategy that completed, not the one created
\* first: when the caller runs again with exactly one strategy succeeded and
\* the other still pending, it takes the payload of the one that succeeded
\* and goes on to return it; the payload it holds is always the result of a
\* strategy that succeeded.
C21_FirstSuccessWins ==
    /\ [][\A t \in Tasks :
            ( /\ callerPc = "woken"
              /\ DoneTasks = {t}
              /\ PcOf(t) = "done"
              /\ callerPc' \notin {"woken", "cancelled"} ) =>
                /\ callerPc' = "closing"
                /\ pdfContent' = <<t, BytesOf(t)>>
                /\ \A u \in Tasks \ {t} : CancelOf(u)']_vars
    /\ [](pdfContent # <<>> =>
            /\ PcOf(pdfContent[1]) = "done"
            /\ pdfContent[2] = BytesOf(pdfContent[1]))

\* The polling strategy has won a period while the event-driven strategy,
\* created first, was still pending, and the event-driven strategy won an
\* earlier period.
C21_Witness ==
    /\ callerPc = "closing"
    /\ pdfContent = <<"blob", BlobContent>>
    /\ directCancel
    /\ \E i \in DOMAIN writes : writes[i][2] = "direct"

\* C22: whenever download_invoice_by_period has returned or raised (bytes
\* returned, a strategy raising, a timeout, no payload), the popup page of
\* the period is closed.
C22_PopupClosedOnEveryExit ==
    callerPc \in {"loop", "finished", "aborted"} => ~popupOpen

====
